---- MODULE Spec2Model ----
(***************************************************************************)
(* A model of the cat-nap-watch capture controllers and of the retention   *)
(* sweep:                                                                  *)
(*   - photo_manager.cleanup_old_photos          (specification SpecSweep) *)
(*   - catnap_watch.CatNapWatch.run              (specification SpecPoll)  *)
(*   - catnap_watch_lowmem.run_emergency_mode    (specification SpecLowmem)*)
(*   - catnap_watch_pir_usb.PIRUSBCameraWatcher  (SpecTrigger, and         *)
(*     SpecTriggerConc where the sensor callback may be re-entered,        *)
(*     SpecTriggerShutdown where run's finally is taken step by step)      *)
(*   - catnap_watch_ultra_minimal.run_ultra_minimal         (SpecUltra)    *)
(*   - the frame comparisons of the three watchers, pixel by pixel         *)
(*     (SpecCompare)                                                       *)
(*   - the presence and colour classifiers, one call each (SpecClassify)   *)
(***************************************************************************)
EXTENDS Integers, Sequences, FiniteSets, TLC

VARIABLES
    now,               \* the wall clock, in tenths of a second
    photos,            \* PHOTOS_DIR: file name -> modification time
    sweep,             \* record of the last cleanup_old_photos call
    resolution,        \* the camera device's frame width and height
    pc,                \* position of the controller's main thread
    camera,            \* self.camera: "none", "open", "unopened", "released"
    last_frame_gray,   \* self.last_frame_gray (None or a grayscale frame)
    running,           \* self.running
    last_cleanup_time, \* self.last_cleanup_time
    current_gray,      \* run's local current_gray
    high_res_frame,    \* run's local high_res_frame
    cyc,               \* what the current cycle has done so far
    stopped_by,        \* why run returned: "startup", "interrupt", "error"
    cap,               \* self.cap of the trigger-driven watcher
    last_motion_time,  \* self.last_motion_time
    baseline_gray,     \* self.baseline_gray
    baseline_img,      \* the pixels stored in the file BASELINE_IMAGE_PATH
    cb,                \* the invocations of the callback _on_motion
    accepted,          \* when the latest accepted trigger was delivered
    prev,              \* the polling fallback's prev
    SAVE_ALL_MOTION_SHOTS, \* config.SAVE_ALL_MOTION_SHOTS, read at import
    ensured,           \* what the call of _ensure_baseline did
    call               \* a call of a frame comparison: arguments and result

envVars == <<now, photos, sweep>>
pollVars == <<resolution, pc, camera, last_frame_gray, running,
              last_cleanup_time, current_gray, high_res_frame, cyc,
              stopped_by>>
trigVars == <<cap, last_motion_time, baseline_gray, baseline_img, cb,
              accepted, prev, SAVE_ALL_MOTION_SHOTS, ensured, call>>

----------------------------------------------------------------------------
(* Program constants (config.py)                                           *)

MAX_STORED_PHOTOS == 50
CLEANUP_INTERVAL_HOURS == 24
SecondsPerHour == 3600
MOTION_DETECTION_WIDTH == 160
MOTION_DETECTION_HEIGHT == 120
PHOTO_CAPTURE_WIDTH == 640
PHOTO_CAPTURE_HEIGHT == 480
DIFF_THRESHOLD == 5000
LOWMEM_BINARY_THRESHOLD == 30   \* catnap_watch_lowmem.py:66
LOWMEM_DIFF_THRESHOLD == 500    \* catnap_watch_lowmem.py:68
MOTION_THRESHOLD == 50
CAT_BRIGHTNESS_THRESHOLD == 50
LIGHT_CAT_THRESHOLD == 100
CAT_MIN_AREA == 1000       \* catnap_watch.py:194
CAT_MAX_AREA == 50000
FRAME_WIDTH == 1280
FRAME_HEIGHT == 720
BASELINE_DIFF_THRESHOLD == 30000
BASELINE_BINARY_THRESHOLD == 30

\* The clock counts tenths of a second (the finest sleep is 0.1 s).
TicksPerSecond == 10
CAPTURE_INTERVAL == 60 * TicksPerSecond
ERROR_PAUSE == 5 * TicksPerSecond      \* catnap_watch.py:344
MOTION_COOLDOWN_SECONDS == 5 * TicksPerSecond
CAPTURE_DELAY_AFTER_MOTION == (6 * TicksPerSecond) \div 10
WARMUP_TIME == 2 * TicksPerSecond
POLL_PAUSE == TicksPerSecond \div 10    \* catnap_watch_pir_usb.py:277
TicksPerHour == SecondsPerHour * TicksPerSecond
TicksPerDay == 24 * TicksPerHour

\* The clock value at which the model starts (some day after 1970).
Epoch == 100 * TicksPerDay

(* Bounds of the model                                                     *)
MaxFiles == 3      \* files in the directory of SpecSweep
MaxMtime == 3      \* distinct modification times in SpecSweep
MaxInstant == 3    \* the clock shows instants 0..MaxInstant
MaxScene == 3      \* the camera sees scenes 0..MaxScene
MaxTick == 5       \* the trigger-driven watcher's clock shows 0..MaxTick
MaxCallbacks == 2  \* threads that can run the sensor callback

----------------------------------------------------------------------------
(* The evidence directory                                                  *)

\* BASELINE_IMAGE_PATH = photos/baseline_nocat.jpg: the reference image lives
\* in PHOTOS_DIR and carries the .jpg suffix.
BASELINE_IMAGE_PATH == <<"baseline_nocat", 0>>

\* glob(PHOTOS_DIR/*.jpg): every file of the directory is a .jpg file.
Glob(dir) == DOMAIN dir

\* (mutant) reverse=True forgotten: oldest first.
Oldest(dir, S) == {f \in S : \A g \in S : dir[f] <= dir[g]}

Newest(dir, S) == {f \in S : \A g \in S : dir[g] <= dir[f]}

\* photo_files.sort(key=getmtime, reverse=True): the orders a stable sort can
\* give, newest first; files of equal mtime keep glob's (arbitrary) order.
RECURSIVE SortedByMtime(_, _)
SortedByMtime(dir, S) ==
    IF S = {} THEN {<<>>}
    ELSE UNION {{<<f>> \o rest : rest \in SortedByMtime(dir, S \ {f})} :
                f \in Newest(dir, S)}

\* (mutant) photo_files[max_photos + 1:]
SliceFromOffByOne(s, n) ==
    IF n + 1 >= Len(s) THEN <<>> ELSE SubSeq(s, n + 2, Len(s))

\* photo_files[max_photos:]
SliceFrom(s, n) == IF n >= Len(s) THEN <<>> ELSE SubSeq(s, n + 1, Len(s))

Range(s) == {s[i] : i \in 1..Len(s)}

\* (mutant) the files before the cut instead of those after it
SelectedFromFront(order, max_photos) ==
    IF Len(order) <= max_photos THEN <<>>
    ELSE SubSeq(order, 1, Len(order) - max_photos)

\* The files a call selects for deletion under a given sorted listing.
Selected(order, max_photos) ==
    IF Len(order) <= max_photos THEN <<>> ELSE SliceFrom(order, max_photos)

NoSweep ==
    [called |-> FALSE, before |-> <<>>, max_photos |-> 0, dry_run |-> FALSE,
     listed |-> FALSE, selected |-> <<>>, attempted |-> {}, removed |-> {},
     ret |-> 0]

\* (mutant) the try/except around the whole loop: the first failure ends it.
RECURSIVE DeleteLoopAbort(_, _)
DeleteLoopAbort(selected, fails) ==
    IF selected = <<>> THEN [attempted |-> {}, removed |-> {}]
    ELSE IF Head(selected) \in fails
         THEN [attempted |-> {Head(selected)}, removed |-> {}]
         ELSE LET r == DeleteLoopAbort(Tail(selected), fails)
              IN  [attempted |-> {Head(selected)} \cup r.attempted,
                   removed   |-> {Head(selected)} \cup r.removed]

\* The deletion loop (lines 60-68), over the files selected, oldest last:
\* each file is attempted; a failure is logged and skipped.
DeleteLoop(selected, fails) ==
    [attempted |-> Range(selected),
     removed   |-> Range(selected) \ fails]

\* cleanup_old_photos(max_photos, dry_run) on directory dir.  order is the
\* sorted listing, fails the files whose getmtime/remove raises, listErr a
\* failure of the listing or of the sort (caught by the outer except).
\* The report loop of a dry run (54-56) reads each selected file's mtime
\* outside any inner handler: a file that fails there ends the call in the
\* outer except, which returns 0 (73-75).
CleanupResult(dir, max_photos, dry_run, order, fails, listErr) ==
    LET base == [NoSweep EXCEPT !.called = TRUE, !.before = dir,
                                !.max_photos = max_photos, !.dry_run = dry_run]
    IN
    IF listErr THEN base
    ELSE IF Glob(dir) = {} THEN [base EXCEPT !.listed = TRUE]
    ELSE IF Len(order) <= max_photos THEN [base EXCEPT !.listed = TRUE]
    ELSE LET files_to_delete == Selected(order, max_photos)
         IN  IF dry_run
             THEN [base EXCEPT !.listed = TRUE, !.selected = files_to_delete,
                               !.ret = IF Range(files_to_delete) \cap fails = {}
                                       THEN Len(files_to_delete) ELSE 0]
             ELSE LET d == DeleteLoop(files_to_delete, fails)
                  IN  [base EXCEPT !.listed = TRUE,
                                   !.selected = files_to_delete,
                                   !.attempted = d.attempted,
                                   !.removed = d.removed,
                                   !.ret = Cardinality(d.removed)]

Remove(dir, S) == [f \in (DOMAIN dir) \ S |-> dir[f]]

\* The call as an action on the directory.
cleanup_old_photos(max_photos, dry_run) ==
    \/ /\ sweep' = CleanupResult(photos, max_photos, dry_run, <<>>, {}, TRUE)
       /\ photos' = photos
    \/ \E order \in SortedByMtime(photos, Glob(photos)) :
       \E fails \in SUBSET Range(Selected(order, max_photos)) :
          LET r == CleanupResult(photos, max_photos, dry_run, order, fails, FALSE)
          IN  /\ sweep' = r
              /\ photos' = Remove(photos, r.removed)

----------------------------------------------------------------------------
(* Frames and the camera device                                            *)

DetectionRes == [w |-> MOTION_DETECTION_WIDTH, h |-> MOTION_DETECTION_HEIGHT]
CaptureRes == [w |-> PHOTO_CAPTURE_WIDTH, h |-> PHOTO_CAPTURE_HEIGHT]

\* A frame: width, height, the brightness of each of its NBlocks blocks, and
\* the areas of the contours a segmentation of it finds.  None is "no frame".
None == [w |-> 0, h |-> 0, px |-> <<>>, contours |-> {}]
NBlocks == 4
Blocks == 1..NBlocks
ContourChoices == {{}, {CAT_MIN_AREA}, {DIFF_THRESHOLD}}

\* Scene k lights the blocks named by the binary digits of k.
RECURSIVE Bit(_, _)
Bit(k, i) == IF i = 1 THEN k % 2 ELSE Bit(k \div 2, i - 1)
ScenePixels(k) == [i \in Blocks |-> IF Bit(k, i) = 1 THEN 200 ELSE 40]
Scenes == 0..MaxScene

\* camera.read() with ret = True: a frame of the device's current resolution.
Frames(r) ==
    {[w |-> r.w, h |-> r.h, px |-> ScenePixels(k), contours |-> c] :
        k \in Scenes, c \in ContourChoices}

\* cv2.cvtColor(frame, COLOR_BGR2GRAY): brightness only.
Gray(f) == [f EXCEPT !.contours = {}]
GrayFrames(r) == {Gray(f) : f \in Frames(r)}

\* The pixels of block i of a w x h frame: block 1 is half the frame, block
\* 2 holds exactly as many pixels as the threshold the frame's changed-pixel
\* count is compared with (a quarter of the frame where there is none), and
\* blocks 3 and 4 share the rest.
EdgePixels(f) ==
    IF f.w = MOTION_DETECTION_WIDTH /\ f.h = MOTION_DETECTION_HEIGHT
    THEN DIFF_THRESHOLD
    ELSE IF f.w = FRAME_WIDTH /\ f.h = FRAME_HEIGHT
    THEN BASELINE_DIFF_THRESHOLD
    ELSE (f.w * f.h) \div NBlocks
BlockPixels(f, i) ==
    CASE i = 1 -> (f.w * f.h) \div 2
      [] i = 2 -> EdgePixels(f)
      [] i = 3 -> ((f.w * f.h) - (f.w * f.h) \div 2 - EdgePixels(f)) \div 2
      [] OTHER -> ((f.w * f.h) - (f.w * f.h) \div 2 - EdgePixels(f))
                  - ((f.w * f.h) - (f.w * f.h) \div 2 - EdgePixels(f)) \div 2

\* The sum of g over the blocks in S.
RECURSIVE SumOver(_, _)
SumOver(g, S) ==
    IF S = {} THEN 0
    ELSE LET i == CHOOSE j \in S : TRUE
         IN  g[i] + SumOver(g, S \ {i})
Abs(x) == IF x < 0 THEN -x ELSE x

\* cv2.absdiff needs frames of one size.
SameSize(a, b) == a.w = b.w /\ a.h = b.h

\* countNonZero(threshold(absdiff(a, b), t, 255, THRESH_BINARY)): the pixels
\* whose difference is greater than t.
ChangedPixels(a, b, t) ==
    SumOver([i \in Blocks |-> BlockPixels(a, i)],
            {i \in Blocks : Abs(a.px[i] - b.px[i]) > t})

\* gray.mean() > t, without the division
MeanAbove(f, t) ==
    SumOver([i \in Blocks |-> f.px[i] * BlockPixels(f, i)], Blocks)
        > t * (f.w * f.h)

\* set_camera_resolution(width, height) on a device at resolution r: nothing
\* when the camera is not opened; else both properties are set, or a set
\* raises before the width or between the width and the height.
SetResolution(r, target, opened) ==
    IF ~opened THEN {[res |-> r, ok |-> TRUE]}
    ELSE {[res |-> target, ok |-> TRUE],
          [res |-> r, ok |-> FALSE],
          [res |-> [w |-> target.w, h |-> r.h], ok |-> FALSE]}

\* The except branch of capture_high_res_photo (158-165): restore, swallow
\* whatever the restore raises, return None.
CaptureHandler(r) ==
    {[res |-> c.res, frame |-> None, switched |-> TRUE] :
        c \in SetResolution(r, DetectionRes, TRUE)}

\* capture_high_res_photo() on a device at resolution r: the results it can
\* return, each with the resolution the device is left at.
\*   - the switch to Capture raises              -> handler
\*   - the settle sleep or one of the reads raises -> handler
\*   - three reads, the last successful one kept (None when all fail)
\*   - the restore raises                         -> handler restores again
CaptureHighRes(r) ==
    UNION {
        IF ~a.ok THEN CaptureHandler(a.res)
        ELSE CaptureHandler(a.res)
             \cup UNION {
                 IF b.ok
                 THEN {[res |-> b.res, frame |-> f, switched |-> TRUE] :
                          f \in Frames(a.res) \cup {None}}
                 ELSE CaptureHandler(b.res)
                 : b \in SetResolution(a.res, DetectionRes, TRUE)}
        : a \in SetResolution(r, CaptureRes, TRUE)}

\* A KeyboardInterrupt inside capture_high_res_photo is not an Exception: it
\* leaves the function at once, with the device as it is at that moment.
CaptureInterrupted(r) ==
    {r} \cup {a.res : a \in SetResolution(r, CaptureRes, TRUE)}
        \cup UNION {{b.res : b \in SetResolution(a.res, DetectionRes, TRUE)} :
                    a \in {x \in SetResolution(r, CaptureRes, TRUE) : x.ok}}

----------------------------------------------------------------------------
(* SpecSweep: the retention sweep on its own (photo_manager.main --cleanup) *)

\* _ensure_baseline has not been called.
\*   ret: its return value;  read: it read the camera;  wrote: it wrote the
\*   reference file
NoEnsure == [called |-> FALSE, ret |-> FALSE, read |-> FALSE, wrote |-> FALSE]

\* No frame comparison is being looked at.
NoCall == [pc |-> "none"]

\* The trigger-driven watcher's variables where it does not run.
TrigUnused ==
    /\ cap = "none"
    /\ last_motion_time = 0
    /\ baseline_gray = None
    /\ baseline_img = None
    /\ cb = <<>>
    /\ accepted = 0
    /\ prev = 0
    /\ SAVE_ALL_MOTION_SHOTS = FALSE
    /\ ensured = NoEnsure

\* The controller variables in a specification where no controller runs.
Unused ==
    /\ TrigUnused
    /\ resolution = DetectionRes
    /\ pc = "none"
    /\ camera = "none"
    /\ last_frame_gray = None
    /\ running = FALSE
    /\ last_cleanup_time = Epoch
    /\ current_gray = None
    /\ high_res_frame = None
    /\ cyc = <<>>
    /\ stopped_by = "none"

\* n files aged 1..n days.
AgedDir(n) ==
    [f \in {<<"cat", i>> : i \in 1..n} |-> Epoch - f[2] * TicksPerDay]

\* The end-to-end scenario: 60 files aged 1..60 days, swept with
\* maxCount = MAX_STORED_PHOTOS.
ScenarioDir == AgedDir(MAX_STORED_PHOTOS + 10)

SweepDirs ==
    UNION {[S -> 1..MaxMtime] :
           S \in {({<<"cat", i>> : i \in 1..n}) \cup b :
                  n \in 0..MaxFiles, b \in {{}, {BASELINE_IMAGE_PATH}}}}

InitSweep ==
    /\ now = Epoch
    /\ photos \in SweepDirs \cup {ScenarioDir}
    /\ sweep = NoSweep
    /\ Unused
    /\ call = NoCall

\* One call per behaviour: every directory a further call could start from is
\* itself an initial state.
Cleanup ==
    /\ ~sweep.called
    /\ \E max_photos \in (IF photos = ScenarioDir THEN {MAX_STORED_PHOTOS}
                           ELSE 0..(MaxFiles + 1)) :
       \E dry_run \in BOOLEAN :
          cleanup_old_photos(max_photos, dry_run)
    /\ UNCHANGED <<now, pollVars, trigVars>>

NextSweep == Cleanup

vars == <<envVars, pollVars, trigVars>>

SpecSweep == InitSweep /\ [][NextSweep]_vars

----------------------------------------------------------------------------
(* The clock                                                               *)

\* The instants the model's clock can show: the start of a day and one
\* capture interval later, day after day.
Instant(i) == Epoch + (i \div 2) * TicksPerDay + (i % 2) * CAPTURE_INTERVAL
TimePoints == {Instant(i) : i \in 0..MaxInstant}

\* time.sleep(d): the clock shows some instant at least d later.
Later(d) == {t \in TimePoints : t >= now + d}

\* datetime.now().strftime("%Y%m%d_%H%M%S"): resolution of one second.
Timestamp(t) == t \div TicksPerSecond

----------------------------------------------------------------------------
(* catnap_watch.CatNapWatch: the two-stage poll loop (SpecPoll)            *)

\* What a cycle has done, kept from its detection read to its closing sleep.
\*   unpaused: a detection read failed and nothing has slept since
\*   changed:  the detection frame's changed-pixel count (-1: not comparable)
\*   checked:  the retention check has been made
\*   sent:     the arguments of the notifier call, <<colour, path>>
NewCycle ==
    [switched |-> FALSE, classified |-> FALSE,
     recorded |-> FALSE, saved |-> FALSE, notified |-> 0, error |-> FALSE,
     unpaused |-> FALSE, changed |-> -1, checked |-> FALSE, sent |-> <<>>]

\* The changed-pixel count of a detection frame against the baseline, where
\* there is a baseline of its size.
DetectionChange(frame_gray) ==
    IF last_frame_gray = None \/ ~SameSize(last_frame_gray, frame_gray)
    THEN -1
    ELSE ChangedPixels(last_frame_gray, frame_gray, MOTION_THRESHOLD)

\* (mutant) is_interesting_frame with >= in place of >
is_interesting_frame_ge(frame_gray, err) ==
    IF last_frame_gray = None THEN FALSE
    ELSE IF err \/ ~SameSize(last_frame_gray, frame_gray) THEN FALSE
    ELSE ChangedPixels(last_frame_gray, frame_gray, MOTION_THRESHOLD)
            >= DIFF_THRESHOLD

\* is_interesting_frame(frame_gray): False without a baseline, False when
\* the comparison raises (frames of different sizes, or err), else whether
\* more than DIFF_THRESHOLD pixels changed by more than MOTION_THRESHOLD.
is_interesting_frame(frame_gray, err) ==
    IF last_frame_gray = None THEN FALSE
    ELSE IF err \/ ~SameSize(last_frame_gray, frame_gray) THEN FALSE
    ELSE ChangedPixels(last_frame_gray, frame_gray, MOTION_THRESHOLD)
            > DIFF_THRESHOLD

\* detect_cat_presence(frame): brightness above the minimum and a contour
\* of an area strictly inside the band; False when anything raises.
detect_cat_presence(frame, err) ==
    IF err THEN FALSE
    ELSE /\ MeanAbove(frame, CAT_BRIGHTNESS_THRESHOLD)
         /\ \E area \in frame.contours : CAT_MIN_AREA < area /\ area < CAT_MAX_AREA

\* (mutant) identify_cat_color with >= in place of >
identify_cat_color_ge(frame, err) ==
    IF err THEN "mysterious"
    ELSE IF MeanAbove(frame, LIGHT_CAT_THRESHOLD)
            \/ SumOver([i \in Blocks |-> frame.px[i] * BlockPixels(frame, i)],
                       Blocks) = LIGHT_CAT_THRESHOLD * (frame.w * frame.h)
         THEN "light" ELSE "dark"

\* identify_cat_color(frame)
identify_cat_color(frame, err) ==
    IF err THEN "mysterious"
    ELSE IF MeanAbove(frame, LIGHT_CAT_THRESHOLD) THEN "light" ELSE "dark"

\* The path a failed save returns: None.
NoPath == <<"none", 0>>

\* The path save_cat_photo writes at time t.
CatPath(t) == <<"cat", Timestamp(t)>>

\* The directory after a successful cv2.imwrite(path) at time t.
Written(dir, path, t) ==
    [f \in (DOMAIN dir) \cup {path} |-> IF f = path THEN t ELSE dir[f]]

InitPoll ==
    /\ now = Epoch
    /\ photos \in {AgedDir(0), AgedDir(MAX_STORED_PHOTOS)}
    /\ sweep = NoSweep
    /\ resolution \in {DetectionRes, CaptureRes}
    /\ pc = "init"
    /\ camera = "none"
    /\ last_frame_gray = None
    /\ running = FALSE
    /\ last_cleanup_time = Epoch
    /\ current_gray = None
    /\ high_res_frame = None
    /\ cyc = NewCycle
    /\ stopped_by = "none"
    /\ TrigUnused
    /\ call = NoCall

\* (mutant) a run that goes on to its loop whatever the start-up returned
AfterStartupIgnored(ok, next) == next

\* Where run goes after its start-up (263-265; lowmem 82-84; pir_usb
\* 256-261): into the loop when it succeeded, else it returns.
AfterStartup(ok, next) == IF ok THEN next ELSE "stopped"

\* run, lines 260-270: initialize_camera.  The device does not open, or a
\* property set raises, or the baseline read fails: run returns False
\* through its finally, which releases the camera object.
PollStartFails ==
    /\ pc = "init"
    /\ \E opened \in BOOLEAN :
          \E a \in SetResolution(resolution, DetectionRes, opened) :
             /\ resolution' = a.res
    /\ camera' = "released"
    /\ pc' = AfterStartup(FALSE, "loop_top")
    /\ stopped_by' = "startup"
    /\ UNCHANGED trigVars
    /\ UNCHANGED <<envVars, last_frame_gray, running, last_cleanup_time,
                   current_gray, high_res_frame, cyc>>

\* run, lines 260-270: initialize_camera succeeds with the device at
\* Detection resolution and the baseline read from it.
PollStart ==
    /\ pc = "init"
    /\ camera' = "open"
    /\ resolution' = DetectionRes
    /\ last_frame_gray' \in GrayFrames(DetectionRes)
    /\ running' = TRUE
    /\ pc' = "loop_top"
    /\ UNCHANGED <<envVars, last_cleanup_time, current_gray, high_res_frame,
                   cyc>>
    /\ UNCHANGED <<stopped_by, trigVars>>

\* lines 272-287, 323-329: the detection read and the comparison with the
\* baseline.  ret False: continue (no sleep); read or cvtColor raises: the
\* handler; else the grayscale frame is kept when it is interesting and
\* discarded when it is not.
PollRead ==
    /\ pc = "loop_top" /\ running
    /\ sweep' = NoSweep
    /\ \/ /\ pc' = "loop_top"
          /\ cyc' = [NewCycle EXCEPT !.unpaused = TRUE]
          /\ UNCHANGED current_gray
       \/ /\ camera = "open"
          /\ pc' = "error"
          /\ cyc' = NewCycle
          /\ UNCHANGED current_gray
       \/ /\ camera = "open"
          /\ \E frame_gray \in GrayFrames(resolution) : \E err \in BOOLEAN :
                /\ cyc' = [NewCycle EXCEPT
                              !.changed = DetectionChange(frame_gray)]
                /\ IF is_interesting_frame(frame_gray, err)
                   THEN pc' = "capture" /\ current_gray' = frame_gray
                   ELSE pc' = "housekeeping" /\ current_gray' = None
    /\ UNCHANGED <<now, photos, resolution, camera, last_frame_gray, running,
                   last_cleanup_time, high_res_frame>>
    /\ UNCHANGED <<stopped_by, trigVars>>

\* line 291: capture_high_res_photo()
PollCapture ==
    /\ pc = "capture"
    /\ \E r \in CaptureHighRes(resolution) :
          /\ resolution' = r.res
          /\ high_res_frame' = r.frame
          /\ cyc' = [cyc EXCEPT !.switched = r.switched]
          /\ pc' = IF r.frame # None THEN "confirm" ELSE "rebaseline"
    /\ UNCHANGED <<envVars, camera, last_frame_gray, running,
                   last_cleanup_time, current_gray>>
    /\ UNCHANGED <<stopped_by, trigVars>>

\* lines 293-315: classify; on a cat save the photo (path or None), derive
\* the colour, notify.
PollConfirm ==
    /\ pc = "confirm"
    /\ \E err \in BOOLEAN :
          IF detect_cat_presence(high_res_frame, err)
          THEN \E saved \in BOOLEAN : \E cerr \in BOOLEAN :
                  /\ photos' = IF saved
                                THEN Written(photos, CatPath(now), now)
                                ELSE photos
                  /\ cyc' = [cyc EXCEPT
                                !.classified = TRUE,
                                !.recorded = TRUE,
                                !.saved = saved,
                                !.notified = @ + 1,
                                !.sent = <<identify_cat_color(high_res_frame,
                                                              cerr),
                                           IF saved THEN CatPath(now)
                                           ELSE NoPath>>]
          ELSE /\ cyc' = [cyc EXCEPT !.classified = TRUE]
               /\ UNCHANGED photos
    /\ high_res_frame' = None
    /\ pc' = "rebaseline"
    /\ UNCHANGED <<now, sweep, resolution, camera, last_frame_gray, running,
                   last_cleanup_time, current_gray>>
    /\ UNCHANGED <<stopped_by, trigVars>>

\* (mutant) a baseline that is replaced only when the photo was saved
UpdatedBaselineIfSaved(old, cur, c) == IF c.saved THEN cur ELSE old

\* lines 318-320: whatever the cycle did, the new baseline is the frame it
\* analysed.
UpdatedBaseline(old, cur, c) == cur

\* lines 317-321: the baseline becomes a copy of the frame just analysed
\* (the copy can raise MemoryError).
PollUpdateBaseline ==
    /\ pc = "rebaseline"
    /\ \/ /\ last_frame_gray' = UpdatedBaseline(last_frame_gray,
                                                current_gray, cyc)
          /\ pc' = "housekeeping"
       \/ /\ last_frame_gray' = None
          /\ pc' = "error"
    /\ UNCHANGED <<envVars, resolution, camera, running, last_cleanup_time,
                   current_gray, high_res_frame, cyc>>
    /\ UNCHANGED <<stopped_by, trigVars>>

\* periodic_cleanup (240-250)
periodic_cleanup ==
    IF now - last_cleanup_time >= CLEANUP_INTERVAL_HOURS * TicksPerHour
    THEN /\ cleanup_old_photos(MAX_STORED_PHOTOS, FALSE)
         /\ last_cleanup_time' = now
    ELSE UNCHANGED <<photos, sweep, last_cleanup_time>>

\* line 332
PollCleanup ==
    /\ pc = "housekeeping"
    /\ periodic_cleanup
    /\ cyc' = [cyc EXCEPT !.checked = TRUE]
    /\ pc' = "sleep"
    /\ UNCHANGED <<now, resolution, camera, last_frame_gray, running,
                   current_gray, high_res_frame>>
    /\ UNCHANGED <<stopped_by, trigVars>>

\* line 335: time.sleep(CAPTURE_INTERVAL)
PollSleep ==
    /\ pc = "sleep"
    /\ now' \in Later(CAPTURE_INTERVAL)
    /\ cyc' = NewCycle
    /\ sweep' = NoSweep
    /\ pc' = "loop_top"
    /\ UNCHANGED <<photos, resolution, camera, last_frame_gray, running,
                   last_cleanup_time, current_gray, high_res_frame>>
    /\ UNCHANGED <<stopped_by, trigVars>>

\* lines 342-344: the handler of a cycle's exception logs, sleeps 5 s and
\* lets the while loop go on.
PollError ==
    /\ pc = "error"
    /\ now' \in Later(ERROR_PAUSE)
    /\ cyc' = [NewCycle EXCEPT !.error = TRUE]
    /\ pc' = "loop_top"
    /\ UNCHANGED <<photos, sweep, resolution, camera, last_frame_gray,
                   running, last_cleanup_time, current_gray, high_res_frame>>
    /\ UNCHANGED <<stopped_by, trigVars>>

\* (mutant) a cleanup that leaves the device open
cleanupKeepsCamera(c) == c

\* cleanup (252-256): the camera object, when there is one, is released.
cleanup(c) == IF c = "none" THEN c ELSE "released"

\* The camera device fails for good: from now on every read returns
\* ret = False.
CameraDies ==
    /\ pc = "loop_top" /\ running
    /\ camera = "open"
    /\ camera' = "dead"
    /\ UNCHANGED <<envVars, resolution, pc, last_frame_gray, running,
                   last_cleanup_time, current_gray, high_res_frame, cyc>>
    /\ UNCHANGED <<stopped_by, trigVars>>

InLoop ==
    pc \in {"loop_top", "capture", "confirm", "rebaseline",
            "housekeeping", "sleep", "error"}

\* lines 337-340 and 349-351: KeyboardInterrupt anywhere in a cycle clears
\* running and breaks, and the finally releases the camera; inside
\* capture_high_res_photo the interrupt finds the device as it is.  run's
\* locals end with it.
PollInterrupt ==
    /\ InLoop
    /\ running' = FALSE
    /\ resolution' \in (IF pc = "capture" THEN CaptureInterrupted(resolution)
                         ELSE {resolution})
    /\ camera' = cleanup(camera)
    /\ current_gray' = None
    /\ high_res_frame' = None
    /\ pc' = "stopped"
    /\ stopped_by' = "interrupt"
    /\ UNCHANGED trigVars
    /\ UNCHANGED <<envVars, last_frame_gray, last_cleanup_time, cyc>>

NextPoll ==
    \/ PollStartFails
    \/ PollStart
    \/ PollRead
    \/ PollCapture
    \/ PollConfirm
    \/ PollUpdateBaseline
    \/ PollCleanup
    \/ PollSleep
    \/ PollError
    \/ CameraDies
    \/ PollInterrupt

SpecPoll == InitPoll /\ [][NextPoll]_vars

\* The loop's own steps are taken whenever they can be; the camera's death
\* and the interrupt are the environment's.
SpecPollLive ==
    /\ SpecPoll
    /\ WF_vars(PollRead)
    /\ WF_vars(PollCapture)
    /\ WF_vars(PollConfirm)
    /\ WF_vars(PollUpdateBaseline)
    /\ WF_vars(PollCleanup)
    /\ WF_vars(PollSleep)
    /\ WF_vars(PollError)

----------------------------------------------------------------------------
(* catnap_watch_lowmem.UltraLowMemoryCatWatch.run_emergency_mode          *)
(* (SpecLowmem).  The device stays at the emergency resolution, which is   *)
(* 160x120 like the detection resolution.                                  *)

\* detect_change(current_gray); absdiff raises on frames of different sizes.
detect_change(frame_gray) ==
    IF last_frame_gray = None THEN FALSE
    ELSE ChangedPixels(last_frame_gray, frame_gray, LOWMEM_BINARY_THRESHOLD)
            > LOWMEM_DIFF_THRESHOLD

LowmemPath(t) == <<"lowmem_cat", Timestamp(t)>>

InitLowmem ==
    /\ InitPoll
    /\ resolution = DetectionRes

\* lines 82-84 with init_camera failing: the device does not open, or the
\* baseline read fails, or something raises.  run returns at once, before
\* its try/finally: a camera that was opened stays open.
LowmemStartFails ==
    /\ pc = "init"
    /\ camera' \in {"unopened", "open"}
    /\ pc' = AfterStartup(FALSE, "loop_top")
    /\ stopped_by' = "startup"
    /\ UNCHANGED trigVars
    /\ UNCHANGED <<envVars, resolution, last_frame_gray, running,
                   last_cleanup_time, current_gray, high_res_frame, cyc>>

\* lines 82-87 with init_camera succeeding
LowmemStart ==
    /\ pc = "init"
    /\ camera' = "open"
    /\ last_frame_gray' \in GrayFrames(resolution)
    /\ pc' = "loop_top"
    /\ UNCHANGED <<envVars, resolution, running, last_cleanup_time,
                   current_gray, high_res_frame, cyc, stopped_by, trigVars>>

\* lines 91-105, 118-120: read; ret False sleeps a second and continues; a
\* raising read, conversion or comparison leaves the loop; else the frame
\* is kept when it changed and dropped when it did not.
LowmemRead ==
    /\ pc = "loop_top"
    /\ cyc' = NewCycle
    /\ \/ /\ now' \in Later(TicksPerSecond)
          /\ pc' = "loop_top"
          /\ UNCHANGED <<current_gray, high_res_frame>>
       \/ /\ pc' = "fatal"
          /\ UNCHANGED <<now, current_gray, high_res_frame>>
       \/ \E frame \in Frames(resolution) :
             /\ IF detect_change(Gray(frame))
                THEN /\ pc' = "save"
                     /\ current_gray' = Gray(frame)
                     /\ high_res_frame' = frame
                ELSE /\ pc' = "sleep"
                     /\ current_gray' = None
                     /\ high_res_frame' = None
             /\ UNCHANGED now
    /\ UNCHANGED <<photos, sweep, resolution, camera, last_frame_gray,
                   running, last_cleanup_time, stopped_by, trigVars>>

\* lines 106-116: save the colour frame (path or None), make the frame the
\* baseline.  imwrite or the copy raising leaves the loop.
LowmemSave ==
    /\ pc = "save"
    /\ \/ /\ pc' = "fatal"
          /\ UNCHANGED <<photos, last_frame_gray, cyc>>
       \/ \E saved \in BOOLEAN :
             /\ photos' = IF saved
                           THEN Written(photos, LowmemPath(now), now)
                           ELSE photos
             /\ cyc' = [cyc EXCEPT !.recorded = TRUE, !.saved = saved]
             /\ \/ /\ last_frame_gray' = current_gray
                   /\ pc' = "sleep"
                \/ /\ last_frame_gray' = None
                   /\ pc' = "fatal"
    /\ UNCHANGED <<now, sweep, resolution, camera, running,
                   last_cleanup_time, current_gray, high_res_frame,
                   stopped_by, trigVars>>

\* lines 122-126
LowmemSleep ==
    /\ pc = "sleep"
    /\ now' \in Later(CAPTURE_INTERVAL)
    /\ cyc' = NewCycle
    /\ current_gray' = None
    /\ high_res_frame' = None
    /\ pc' = "loop_top"
    /\ UNCHANGED <<photos, sweep, resolution, camera, last_frame_gray,
                   running, last_cleanup_time, stopped_by, trigVars>>

\* lines 130-138: the try encloses the while loop, so an exception of one
\* cycle ends the loop; the finally releases the camera.
LowmemFatal ==
    /\ pc = "fatal"
    /\ camera' = "released"
    /\ last_frame_gray' = None
    /\ current_gray' = None
    /\ high_res_frame' = None
    /\ pc' = "stopped"
    /\ stopped_by' = "error"
    /\ UNCHANGED trigVars
    /\ UNCHANGED <<envVars, resolution, running, last_cleanup_time, cyc>>

\* lines 128-129, 132-138: KeyboardInterrupt anywhere in the loop
LowmemInterrupt ==
    /\ pc \in {"loop_top", "save", "sleep"}
    /\ camera' = "released"
    /\ last_frame_gray' = None
    /\ current_gray' = None
    /\ high_res_frame' = None
    /\ pc' = "stopped"
    /\ stopped_by' = "interrupt"
    /\ UNCHANGED trigVars
    /\ UNCHANGED <<envVars, resolution, running, last_cleanup_time, cyc>>

NextLowmem ==
    \/ LowmemStartFails
    \/ LowmemStart
    \/ LowmemRead
    \/ LowmemSave
    \/ LowmemSleep
    \/ LowmemFatal
    \/ LowmemInterrupt

SpecLowmem == InitLowmem /\ [][NextLowmem]_vars

----------------------------------------------------------------------------
(* catnap_watch_ultra_minimal.UltraMinimalCatWatch.run_ultra_minimal       *)
(* (SpecUltra): no video stream, one raspistill photo per cycle.           *)

UltraPath(t) == <<"ultra_minimal", Timestamp(t)>>

InitUltra ==
    /\ InitPoll
    /\ resolution = DetectionRes

\* lines 107-110: test_raspistill fails and run returns False.
UltraStartFails ==
    /\ pc = "init"
    /\ pc' = AfterStartup(FALSE, "loop_top")
    /\ stopped_by' = "startup"
    /\ UNCHANGED trigVars
    /\ UNCHANGED <<envVars, resolution, camera, last_frame_gray, running,
                   last_cleanup_time, current_gray, high_res_frame, cyc>>

\* lines 107-115
UltraStart ==
    /\ pc = "init"
    /\ running' = TRUE
    /\ pc' = AfterStartup(TRUE, "loop_top")
    /\ UNCHANGED trigVars
    /\ UNCHANGED <<envVars, resolution, camera, last_frame_gray,
                   last_cleanup_time, current_gray, high_res_frame, cyc,
                   stopped_by>>

\* (mutant) an update mailed in every cycle
NotifierCallsAlways(photo_path) == 1

\* lines 124-162: send_email is called once when capture_photo returned a
\* path and not at all when it returned None.
NotifierCalls(photo_path) == IF photo_path # NoPath THEN 1 ELSE 0

\* lines 119-162: capture_photo (57-90) writes the file and returns its
\* path, or returns None when raspistill fails, times out or raises; with a
\* path the update is mailed with the photo, and whatever the mailing does
\* is contained (73-131, 158-159).
UltraCycle ==
    /\ pc = "loop_top" /\ running
    /\ \E photo_path \in {UltraPath(now), NoPath} :
          /\ photos' = IF photo_path # NoPath
                        THEN Written(photos, photo_path, now)
                        ELSE photos
          /\ cyc' = [NewCycle EXCEPT
                        !.saved = photo_path # NoPath,
                        !.notified = NotifierCalls(photo_path),
                        !.sent = IF NotifierCalls(photo_path) > 0
                                 THEN <<"update", photo_path>> ELSE <<>>]
    /\ pc' = "sleep"
    /\ UNCHANGED trigVars
    /\ UNCHANGED <<now, sweep, resolution, camera, last_frame_gray, running,
                   last_cleanup_time, current_gray, high_res_frame,
                   stopped_by>>

\* lines 164-166
UltraSleep ==
    /\ pc = "sleep"
    /\ now' \in Later(CAPTURE_INTERVAL)
    /\ cyc' = NewCycle
    /\ pc' = "loop_top"
    /\ UNCHANGED trigVars
    /\ UNCHANGED <<photos, sweep, resolution, camera, last_frame_gray,
                   running, last_cleanup_time, current_gray, high_res_frame,
                   stopped_by>>

\* lines 168-174: KeyboardInterrupt anywhere in the loop
UltraInterrupt ==
    /\ pc \in {"loop_top", "sleep"}
    /\ running' = FALSE
    /\ pc' = "stopped"
    /\ stopped_by' = "interrupt"
    /\ UNCHANGED trigVars
    /\ UNCHANGED <<envVars, resolution, camera, last_frame_gray,
                   last_cleanup_time, current_gray, high_res_frame, cyc>>

NextUltra ==
    \/ UltraStartFails
    \/ UltraStart
    \/ UltraCycle
    \/ UltraSleep
    \/ UltraInterrupt

SpecUltra == InitUltra /\ [][NextUltra]_vars

----------------------------------------------------------------------------
(* catnap_watch_pir_usb.PIRUSBCameraWatcher: the trigger-driven watcher    *)
(* (SpecTrigger; SpecTriggerConc where the callback may be re-entered)     *)

FrameRes == [w |-> FRAME_WIDTH, h |-> FRAME_HEIGHT]

\* The frames this watcher reads; it never looks at their contours.
TrigFrames(r) == {f \in Frames(r) : f.contours = {}}

\* The instants this watcher's clock can show: in each day its start, the
\* capture delay later, just inside the cooldown and at its end.
TickOffset(i) ==
    CASE i % 4 = 0 -> 0
      [] i % 4 = 1 -> CAPTURE_DELAY_AFTER_MOTION
      [] i % 4 = 2 -> MOTION_COOLDOWN_SECONDS - 1
      [] OTHER -> MOTION_COOLDOWN_SECONDS
TriggerInstant(i) == Epoch + (i \div 4) * TicksPerDay + TickOffset(i)
TriggerTimes == {TriggerInstant(i) : i \in 0..MaxTick}

\* time.sleep(d) on this clock
After(d) == {t \in TriggerTimes : t >= now + d}

\* The threads that can run the callback.
Threads == 1..MaxCallbacks

\* One invocation of _on_motion: where it is, its local now, the time of
\* the accepted trigger before it, and what it has done:
\*   captured:  _capture_frame was called;  got: it returned a frame
\*   recording: line 237 was reached (a cat, or every shot is saved)
\*   saved:     _save_photo wrote the file
\*   notified:  calls of the notifier;  sent: their <<colour, path>>
Idle ==
    [pc |-> "idle", now |-> 0, last |-> 0, passed |-> FALSE,
     captured |-> FALSE, got |-> FALSE, recording |-> FALSE,
     saved |-> FALSE, notified |-> 0, sent |-> <<>>]
Finished == {"idle", "returned", "raised"}
Alive == {"event_wait", "poll_loop", "poll_call"}

\* A callback already invoked goes on while run is in its finally (pc =
\* "closing", specification SpecTriggerShutdown): nothing stops or joins it.
InFlight == Alive \cup {"closing"}

\* 50 photos aged 1..50 days and a reference image older than all of them.
BaselineDir ==
    Written(AgedDir(MAX_STORED_PHOTOS), BASELINE_IMAGE_PATH,
            Epoch - (MAX_STORED_PHOTOS + 1) * TicksPerDay)

\* __init__ (61-66), over the directories and reference images run can find:
\* no file, or a file that is unreadable, of the camera's size or of another.
InitTrigger ==
    /\ now = TriggerInstant(0)
    /\ \/ /\ photos = AgedDir(0)
          /\ baseline_img = None
       \/ /\ photos = BaselineDir
          /\ baseline_img \in TrigFrames(FrameRes)
                                \cup {f \in TrigFrames(CaptureRes) :
                                          f.px = ScenePixels(0)}
                                \cup {None}
    /\ sweep = NoSweep
    /\ resolution = FrameRes
    /\ pc = "init"
    /\ camera = "none"
    /\ last_frame_gray = None
    /\ running = FALSE
    /\ last_cleanup_time = now
    /\ current_gray = None
    /\ high_res_frame = None
    /\ cyc = <<>>
    /\ stopped_by = "none"
    /\ cap = "none"
    /\ last_motion_time = 0
    /\ accepted = 0
    /\ baseline_gray = None
    /\ cb = [t \in Threads |-> Idle]
    /\ prev = 0
    /\ SAVE_ALL_MOTION_SHOTS \in BOOLEAN
    /\ ensured = NoEnsure
    /\ call = NoCall

trigPollVars == <<resolution, camera, last_frame_gray, running,
                  current_gray, high_res_frame, cyc>>

\* _ensure_baseline finds the file and can read it (131-136).
BaselineOnDisk == BASELINE_IMAGE_PATH \in DOMAIN photos /\ baseline_img # None

\* (mutant) an _ensure_baseline that never looks at the file
ensure_baseline_recapture(exists, img, gray) ==
    {[ret |-> FALSE, gray |-> gray, img |-> img, read |-> TRUE,
      wrote |-> FALSE]}
    \cup {[ret |-> TRUE, gray |-> Gray(frame), img |-> frame, read |-> TRUE,
           wrote |-> TRUE] : frame \in TrigFrames(FrameRes)}

\* _ensure_baseline (128-157) with the camera open, over what the camera
\* and the disk can do: the file is there and readable, and is loaded
\* (131-136); else a frame is read after the warm-up, written to the file
\* and kept (139-157); a failed read or write returns False and leaves the
\* object and the file as they were.
ensure_baseline(exists, img, gray) ==
    IF exists /\ img # None
    THEN {[ret |-> TRUE, gray |-> Gray(img), img |-> img, read |-> FALSE,
           wrote |-> FALSE]}
    ELSE {[ret |-> FALSE, gray |-> gray, img |-> img, read |-> TRUE,
           wrote |-> FALSE]}
         \cup {[ret |-> TRUE, gray |-> Gray(frame), img |-> frame,
                read |-> TRUE, wrote |-> TRUE] :
                   frame \in TrigFrames(FrameRes)}

\* The state after run's call of _ensure_baseline with outcome e: the clock
\* has moved by the warm-up when the camera was read.
Ensure(e) ==
    /\ baseline_gray' = e.gray
    /\ baseline_img' = e.img
    /\ ensured' = [called |-> TRUE, ret |-> e.ret, read |-> e.read,
                   wrote |-> e.wrote]
    /\ IF e.read THEN now' \in After(WARMUP_TIME) ELSE UNCHANGED now
    /\ photos' = IF e.wrote
                  THEN Written(photos, BASELINE_IMAGE_PATH, now')
                  ELSE photos

\* run, 256-261 and 280-283: the camera does not open, or it opens and
\* _ensure_baseline returns False; run returns through its finally.
TrigStartFails ==
    /\ pc = "init"
    /\ \/ UNCHANGED <<now, photos, baseline_gray, baseline_img, ensured>>
       \/ \E e \in ensure_baseline(BASELINE_IMAGE_PATH \in DOMAIN photos,
                                    baseline_img, baseline_gray) :
             ~e.ret /\ Ensure(e)
    /\ cap' = "none"
    /\ pc' = AfterStartup(FALSE, "event_wait")
    /\ stopped_by' = "startup"
    /\ UNCHANGED <<sweep, last_cleanup_time, trigPollVars,
                   last_motion_time, accepted, cb, prev,
                   SAVE_ALL_MOTION_SHOTS, call>>

\* run, 256-266: the camera opens; _ensure_baseline loads the reference
\* image or captures and writes it; add_event_detect registers the callback,
\* or raises and run falls back to polling the pin.
TrigStart ==
    /\ pc = "init"
    /\ cap' = "open"
    /\ \E e \in ensure_baseline(BASELINE_IMAGE_PATH \in DOMAIN photos,
                                 baseline_img, baseline_gray) :
          e.ret /\ Ensure(e)
    /\ pc' \in {"event_wait", "poll_loop"}
    /\ prev' = 0
    /\ UNCHANGED <<sweep, last_cleanup_time, trigPollVars, stopped_by,
                   last_motion_time, accepted, cb, SAVE_ALL_MOTION_SHOTS,
                   call>>

\* (mutant) a debounce window as short as the capture delay
InCooldownShort(t, last) == t - last < CAPTURE_DELAY_AFTER_MOTION

\* line 224: now - self.last_motion_time < MOTION_COOLDOWN_SECONDS
InCooldown(t, last) == t - last < MOTION_COOLDOWN_SECONDS

\* line 223: the sensor's rising edge invokes _on_motion on thread t, which
\* reads the clock.
Deliver(t) ==
    /\ cb[t].pc \in Finished
    /\ cb' = [cb EXCEPT ![t] = [Idle EXCEPT !.pc = "check", !.now = now,
                                            !.last = accepted]]

\* 266-268: the callbacks of the registered edge detection run one after
\* another on the library's callback thread.
DeliverSerial ==
    /\ pc = "event_wait"
    /\ \A s \in Threads : cb[s].pc \in Finished
    /\ Deliver(1)
    /\ UNCHANGED <<envVars, pollVars, cap, last_motion_time, accepted,
                   baseline_gray, baseline_img, prev,
                   SAVE_ALL_MOTION_SHOTS, ensured, call>>

\* 266-268 with a delivery that does not wait for the invocation before it:
\* the edge is handled by the first thread that is free.
DeliverConc ==
    /\ pc = "event_wait"
    /\ \E t \in Threads :
          /\ \A s \in 1..(t - 1) : cb[s].pc \notin Finished
          /\ Deliver(t)
    /\ UNCHANGED <<envVars, pollVars, cap, last_motion_time, accepted,
                   baseline_gray, baseline_img, prev,
                   SAVE_ALL_MOTION_SHOTS, ensured, call>>

\* (mutant) a check that stamps every trigger it looks at
AfterCheckStamped(last, t) == t

\* self.last_motion_time after lines 223-225: the check writes nothing (the
\* time of an accepted trigger is stored at line 226).
AfterCheck(last, t) == last

\* 224-225: the debounce check
OnMotionCheck(t) ==
    /\ pc \in InFlight
    /\ cb[t].pc = "check"
    /\ cb' = [cb EXCEPT ![t] =
                 IF InCooldown(cb[t].now, last_motion_time)
                 THEN [@ EXCEPT !.pc = "returned"]
                 ELSE [@ EXCEPT !.pc = "accept", !.passed = TRUE]]
    /\ last_motion_time' = AfterCheck(last_motion_time, cb[t].now)
    /\ UNCHANGED <<envVars, pollVars, cap, accepted,
                   baseline_gray, baseline_img, prev,
                   SAVE_ALL_MOTION_SHOTS, ensured, call>>

\* 226-228: the trigger is accepted and the settle delay slept
OnMotionAccept(t) ==
    /\ pc \in InFlight
    /\ cb[t].pc = "accept"
    /\ last_motion_time' = cb[t].now
    /\ accepted' = cb[t].now
    /\ now' \in After(CAPTURE_DELAY_AFTER_MOTION)
    /\ cb' = [cb EXCEPT ![t].pc = "capture"]
    /\ UNCHANGED <<photos, sweep, pollVars, cap, baseline_gray,
                   baseline_img, prev,
                   SAVE_ALL_MOTION_SHOTS, ensured, call>>

\* (mutant) _cat_color with a handler that answers "dark"
cat_color_dark(frame, err) ==
    IF err THEN "dark"
    ELSE IF MeanAbove(Gray(frame), LIGHT_CAT_THRESHOLD) THEN "light"
    ELSE "dark"

\* _cat_color (197-202)
cat_color(frame, err) ==
    IF err THEN "mysterious"
    ELSE IF MeanAbove(Gray(frame), LIGHT_CAT_THRESHOLD) THEN "light"
    ELSE "dark"

\* _compare_to_baseline (159-174) with the baseline set, as run leaves it
\* before the first callback (259-261); absdiff raises on frames of
\* different sizes.
compare_to_baseline(frame) ==
    ChangedPixels(baseline_gray, Gray(frame), BASELINE_BINARY_THRESHOLD)

\* (mutant) a failed capture that clears the stamp, so that the next
\* trigger retries at once
AfterCaptureRetry(last, got) == IF got THEN last ELSE 0

\* self.last_motion_time after lines 229-242: the pipeline never writes it,
\* whether _capture_frame returned a frame (got) or None.
AfterCapture(last, got) == last

\* 229-241: capture (None: return), compare with the reference image, and
\* on a cat save, derive the colour and notify.  The comparison raises on a
\* size mismatch, _save_photo when makedirs raises.
OnMotionPipeline(t) ==
    /\ pc \in InFlight
    /\ cb[t].pc = "capture"
    /\ \/ /\ cap' \in {"none", "open"}
          /\ cb' = [cb EXCEPT ![t].pc = "returned", ![t].captured = TRUE]
          /\ UNCHANGED photos
       \/ /\ cap' = "open"
          /\ \E frame \in TrigFrames(FrameRes) :
                IF ~SameSize(baseline_gray, Gray(frame))
                THEN /\ cb' = [cb EXCEPT ![t].pc = "raised",
                                         ![t].captured = TRUE,
                                         ![t].got = TRUE]
                     /\ UNCHANGED photos
                ELSE IF compare_to_baseline(frame) > BASELINE_DIFF_THRESHOLD
                        \/ SAVE_ALL_MOTION_SHOTS
                THEN \/ /\ cb' = [cb EXCEPT ![t].pc = "raised",
                                            ![t].captured = TRUE,
                                            ![t].got = TRUE,
                                            ![t].recording = TRUE]
                        /\ UNCHANGED photos
                     \/ \E saved \in BOOLEAN : \E err \in BOOLEAN :
                           /\ photos' = IF saved
                                         THEN Written(photos, CatPath(now), now)
                                         ELSE photos
                           /\ cb' = [cb EXCEPT
                                        ![t].pc = "housekeeping",
                                        ![t].captured = TRUE,
                                        ![t].got = TRUE,
                                        ![t].recording = TRUE,
                                        ![t].saved = saved,
                                        ![t].notified = @ + 1,
                                        ![t].sent = <<cat_color(frame, err),
                                                      IF saved
                                                      THEN CatPath(now)
                                                      ELSE NoPath>>]
                ELSE /\ cb' = [cb EXCEPT ![t].pc = "housekeeping",
                                         ![t].captured = TRUE,
                                         ![t].got = TRUE]
                     /\ UNCHANGED photos
    /\ last_motion_time' = AfterCapture(last_motion_time, cb'[t].got)
    /\ UNCHANGED <<now, sweep, pollVars, accepted,
                   baseline_gray, baseline_img, prev,
                   SAVE_ALL_MOTION_SHOTS, ensured, call>>

\* line 242: _periodic_cleanup (214-220)
OnMotionCleanup(t) ==
    /\ pc \in InFlight
    /\ cb[t].pc = "housekeeping"
    /\ periodic_cleanup
    /\ cb' = [cb EXCEPT ![t].pc = "returned"]
    /\ UNCHANGED <<now, resolution, pc, camera, last_frame_gray, running,
                   current_gray, high_res_frame, cyc, stopped_by, cap,
                   last_motion_time, accepted, baseline_gray, baseline_img,
                   prev,
                   SAVE_ALL_MOTION_SHOTS, ensured, call>>

\* 267-268: time passes while the main thread sleeps.
Tick ==
    /\ pc = "event_wait"
    /\ now' \in After(1)
    /\ UNCHANGED <<photos, sweep, pollVars, trigVars>>

\* (mutant) a test of the level alone
RisingEdgeLevel(cur, prv) == cur = 1

\* line 274: cur == 1 and prev == 0
RisingEdge(cur, prv) == cur = 1 /\ prv = 0

\* 272-277: the polling fallback samples the pin; a rising edge calls
\* _on_motion on the main thread, anything else is remembered and slept on.
FallbackSample ==
    /\ pc = "poll_loop"
    /\ \E cur \in {0, 1} :
          IF RisingEdge(cur, prev)
          THEN /\ Deliver(1)
               /\ pc' = "poll_call"
               /\ UNCHANGED <<now, prev>>
          ELSE /\ prev' = cur
               /\ now' \in After(POLL_PAUSE)
               /\ UNCHANGED <<pc, cb>>
    /\ UNCHANGED <<photos, sweep, resolution, camera, last_frame_gray,
                   running, last_cleanup_time, current_gray, high_res_frame,
                   cyc, stopped_by, cap, last_motion_time, accepted,
                   baseline_gray, baseline_img,
                   SAVE_ALL_MOTION_SHOTS, ensured, call>>

\* 276-277: _on_motion returned
FallbackResume ==
    /\ pc = "poll_call"
    /\ cb[1].pc = "returned"
    /\ prev' = 1
    /\ now' \in After(POLL_PAUSE)
    /\ pc' = "poll_loop"
    /\ UNCHANGED <<photos, sweep, resolution, camera, last_frame_gray,
                   running, last_cleanup_time, current_gray, high_res_frame,
                   cyc, stopped_by, cap, last_motion_time, accepted,
                   baseline_gray, baseline_img, cb,
                   SAVE_ALL_MOTION_SHOTS, ensured, call>>

\* 275, 280-283: _on_motion raised; nothing around the call handles it, so
\* it leaves the fallback loop and run, through the finally.
FallbackRaises ==
    /\ pc = "poll_call"
    /\ cb[1].pc = "raised"
    /\ cap' = "none"
    /\ pc' = "stopped"
    /\ stopped_by' = "error"
    /\ UNCHANGED <<envVars, last_cleanup_time, trigPollVars,
                   last_motion_time, accepted, baseline_gray, baseline_img,
                   cb, prev,
                   SAVE_ALL_MOTION_SHOTS, ensured, call>>

\* 278-283: KeyboardInterrupt; the finally closes the camera, and the
\* process ends with its callbacks.
TrigInterrupt ==
    /\ pc \in Alive
    /\ cap' = "none"
    /\ cb' = [t \in Threads |-> Idle]
    /\ pc' = "stopped"
    /\ stopped_by' = "interrupt"
    /\ UNCHANGED <<envVars, last_cleanup_time, trigPollVars,
                   last_motion_time, accepted, baseline_gray, baseline_img,
                   prev,
                   SAVE_ALL_MOTION_SHOTS, ensured, call>>

NextTrigger ==
    \/ TrigStartFails
    \/ TrigStart
    \/ DeliverSerial
    \/ \E t \in Threads : OnMotionCheck(t)
    \/ \E t \in Threads : OnMotionAccept(t)
    \/ \E t \in Threads : OnMotionPipeline(t)
    \/ \E t \in Threads : OnMotionCleanup(t)
    \/ Tick
    \/ FallbackSample
    \/ FallbackResume
    \/ FallbackRaises
    \/ TrigInterrupt

SpecTrigger == InitTrigger /\ [][NextTrigger]_vars

NextTriggerConc ==
    \/ TrigStartFails
    \/ TrigStart
    \/ DeliverConc
    \/ \E t \in Threads : OnMotionCheck(t)
    \/ \E t \in Threads : OnMotionAccept(t)
    \/ \E t \in Threads : OnMotionPipeline(t)
    \/ \E t \in Threads : OnMotionCleanup(t)
    \/ Tick
    \/ FallbackSample
    \/ FallbackResume
    \/ FallbackRaises
    \/ TrigInterrupt

\* A first run: no photos and no reference image on disk yet.
InitTriggerConc == InitTrigger /\ photos = AgedDir(0)

\* 278-281 with the callback registered: KeyboardInterrupt in the main
\* thread's sleep; the finally calls _close_camera, which releases the
\* handle and sets self.cap to None.  The callback thread is not told.
TrigClose ==
    /\ pc = "event_wait"
    /\ cap' = "none"
    /\ pc' = "closing"
    /\ stopped_by' = "interrupt"
    /\ UNCHANGED <<envVars, last_cleanup_time, trigPollVars,
                   last_motion_time, accepted, baseline_gray, baseline_img,
                   cb, prev, SAVE_ALL_MOTION_SHOTS, ensured, call>>

\* 282-283 and 286: GPIO.cleanup, run returns and the process ends, with
\* the callbacks still in flight; self.cap is what they left.
TrigExit ==
    /\ pc = "closing"
    /\ pc' = "stopped"
    /\ cb' = [t \in Threads |-> Idle]
    /\ UNCHANGED <<envVars, last_cleanup_time, trigPollVars, stopped_by,
                   cap, last_motion_time, accepted, baseline_gray,
                   baseline_img, prev, SAVE_ALL_MOTION_SHOTS, ensured, call>>

\* SpecTrigger with the shutdown taken apart: the callbacks in flight can
\* take steps between _close_camera and the end of the process.
NextTriggerShutdown ==
    \/ NextTrigger
    \/ TrigClose
    \/ TrigExit

SpecTriggerShutdown == InitTriggerConc /\ [][NextTriggerShutdown]_vars

SpecTriggerConc == InitTriggerConc /\ [][NextTriggerConc]_vars

----------------------------------------------------------------------------
(* The frame comparisons, pixel by pixel (SpecCompare): _compare_to_baseline *)
(* of the trigger-driven watcher, is_interesting_frame of the poll loop and  *)
(* detect_change of the low-memory loop, each applied once to a baseline and *)
(* a frame drawn from small grayscale images.                                *)

\* The images are ImgW x ImgH, and one is a column narrower.
ImgW == 3
ImgH == 3

\* A w x h image of grey g whose pixel i has the value v (pixels in row
\* order, from 1).
OnePixel(r, g, i, v) ==
    [w |-> r.w, h |-> r.h,
     px |-> [p \in 1..(r.w * r.h) |-> IF p = i THEN v ELSE g]]

\* The images compared: uniform ones, and ones with a corner or the centre
\* pixel brighter by as much as the default binary threshold, by one more,
\* and by much more.
Greys == {0, 100}
Spots == {1, 5}
Deltas == {0, BASELINE_BINARY_THRESHOLD, BASELINE_BINARY_THRESHOLD + 1, 155}
Images ==
    {OnePixel([w |-> ImgW, h |-> ImgH], g, i, g + d) :
        g \in Greys, i \in Spots, d \in Deltas}
    \cup {OnePixel([w |-> ImgW - 1, h |-> ImgH], 0, 1, 0)}

\* The settings: BASELINE_BLUR_KERNEL (0 and even values disable the blur)
\* and BASELINE_BINARY_THRESHOLD, both read from the environment.
Kernels == {0, 3, 4, 5}
Thresholds == {0, BASELINE_BINARY_THRESHOLD}

\* cv2.getGaussianKernel(k, 0) for k = 3 and k = 5, in quarters and in
\* sixteenths.
Kernel1D(k) == IF k = 3 THEN <<1, 2, 1>> ELSE <<1, 4, 6, 4, 1>>
KernelSum(k) == IF k = 3 THEN 4 ELSE 16

\* BORDER_REFLECT_101: the index of the pixel used for column (or row) i of
\* an image of n columns (rows), both counted from 0.
RECURSIVE Reflect(_, _)
Reflect(i, n) ==
    IF n = 1 THEN 0
    ELSE IF i < 0 THEN Reflect(-i, n)
    ELSE IF i >= n THEN Reflect(2 * (n - 1) - i, n)
    ELSE i

\* cv2.GaussianBlur(img, (k, k), 0) on an 8-bit image: the weighted mean of
\* the k x k neighbourhood, rounded to the nearest integer.
GaussianBlur(img, k) ==
    LET r == k \div 2
        N == (-r..r) \X (-r..r)
        At(x, y) == img.px[Reflect(y, img.h) * img.w + Reflect(x, img.w) + 1]
        Mean(x, y) ==
            (SumOver([d \in N |-> Kernel1D(k)[d[1] + r + 1]
                                    * Kernel1D(k)[d[2] + r + 1]
                                    * At(x + d[1], y + d[2])], N)
               + (KernelSum(k) * KernelSum(k)) \div 2)
            \div (KernelSum(k) * KernelSum(k))
    IN  [img EXCEPT !.px = [p \in DOMAIN img.px |->
                               Mean((p - 1) % img.w, (p - 1) \div img.w)]]

\* cv2.absdiff(a, b) on images of one size
absdiff(a, b) == [p \in DOMAIN a.px |-> Abs(a.px[p] - b.px[p])]

\* (mutant) a binarisation that counts a difference equal to the threshold
threshold_ge(diff, t) == [p \in DOMAIN diff |-> IF diff[p] >= t THEN 255 ELSE 0]

\* cv2.threshold(diff, t, 255, cv2.THRESH_BINARY)
threshold(diff, t) == [p \in DOMAIN diff |-> IF diff[p] > t THEN 255 ELSE 0]

\* cv2.countNonZero(thresh)
countNonZero(thresh) == Cardinality({p \in DOMAIN thresh : thresh[p] # 0})

\* pir_usb 165-172, poll 109-115, lowmem 65-66: both images blurred when the
\* kernel is odd and not 0, then difference, binarisation and count.
Score(base, gray, k, t) ==
    IF k # 0 /\ k % 2 = 1
    THEN countNonZero(threshold(absdiff(GaussianBlur(base, k),
                                        GaussianBlur(gray, k)), t))
    ELSE countNonZero(threshold(absdiff(base, gray), t))

\* A call before it is made: the object's baseline (None as __init__ leaves
\* it), the frame, the settings.
\*   nobase: there was no baseline and none could be loaded or captured
\*   raised: the call raised;  changed: the count it computed (-1: none)
\*   ret:    the number it returned (-1: none);  verdict: the boolean it
\*           returned ("none": none)
Calls ==
    [pc : {"input"}, fn : {"none"}, base : Images \cup {None},
     frame : Images, kernel : Kernels, thresh : Thresholds,
     nobase : {FALSE}, raised : {FALSE}, changed : {-1}, ret : {-1},
     verdict : {"none"}]

InitCompare ==
    /\ now = Epoch
    /\ photos = AgedDir(0)
    /\ sweep = NoSweep
    /\ Unused
    /\ call \in Calls

\* The call returned the number v, having counted n changed pixels.
Returned(c, f, n, v) ==
    [c EXCEPT !.pc = "done", !.fn = f, !.changed = n, !.ret = v]

\* The call returned the boolean b, having counted n changed pixels.
Decided(c, f, n, b) ==
    [c EXCEPT !.pc = "done", !.fn = f, !.changed = n,
              !.verdict = IF b THEN "True" ELSE "False"]

\* The call raised (cv2.error from absdiff on images of different sizes).
Raised(c, f) == [c EXCEPT !.pc = "done", !.fn = f, !.raised = TRUE]

\* _compare_to_baseline (159-174).  Without a baseline it calls
\* _ensure_baseline: when that fails it returns 0 (161-163), when it
\* succeeds the comparison is made with the image loaded or captured.
CompareToBaseline ==
    /\ call.pc = "input"
    /\ \E b \in (IF call.base = None THEN Images \cup {None}
                 ELSE {call.base}) :
          call' =
             IF b = None
             THEN Returned([call EXCEPT !.nobase = TRUE],
                           "_compare_to_baseline", -1, 0)
             ELSE IF ~SameSize(b, call.frame)
             THEN Raised([call EXCEPT !.base = b], "_compare_to_baseline")
             ELSE LET n == Score(b, call.frame, call.kernel, call.thresh)
                  IN  Returned([call EXCEPT !.base = b],
                               "_compare_to_baseline", n, n)
    /\ UNCHANGED <<envVars, pollVars, cap, last_motion_time, baseline_gray,
                   baseline_img, cb, accepted, prev, SAVE_ALL_MOTION_SHOTS,
                   ensured>>

\* is_interesting_frame (98-122): False without a baseline; whatever raises
\* inside is logged and False is returned; no blur, MOTION_THRESHOLD.
IsInterestingFrame ==
    /\ call.pc = "input"
    /\ call' =
          IF call.base = None
          THEN Decided([call EXCEPT !.nobase = TRUE],
                        "is_interesting_frame", -1, FALSE)
          ELSE IF ~SameSize(call.base, call.frame)
          THEN Decided(call, "is_interesting_frame", -1, FALSE)
          ELSE LET n == Score(call.base, call.frame, 0, MOTION_THRESHOLD)
               IN  Decided(call, "is_interesting_frame", n,
                            n > DIFF_THRESHOLD)
    /\ UNCHANGED <<envVars, pollVars, cap, last_motion_time, baseline_gray,
                   baseline_img, cb, accepted, prev, SAVE_ALL_MOTION_SHOTS,
                   ensured>>

\* detect_change (lowmem 59-68): False without a baseline; no handler, no
\* blur, the thresholds written in the code.
DetectChange ==
    /\ call.pc = "input"
    /\ call' =
          IF call.base = None
          THEN Decided([call EXCEPT !.nobase = TRUE],
                        "detect_change", -1, FALSE)
          ELSE IF ~SameSize(call.base, call.frame)
          THEN Raised(call, "detect_change")
          ELSE LET n == Score(call.base, call.frame, 0,
                              LOWMEM_BINARY_THRESHOLD)
               IN  Decided(call, "detect_change", n,
                            n > LOWMEM_DIFF_THRESHOLD)
    /\ UNCHANGED <<envVars, pollVars, cap, last_motion_time, baseline_gray,
                   baseline_img, cb, accepted, prev, SAVE_ALL_MOTION_SHOTS,
                   ensured>>

NextCompare ==
    \/ CompareToBaseline
    \/ IsInterestingFrame
    \/ DetectChange

SpecCompare == InitCompare /\ [][NextCompare]_vars

----------------------------------------------------------------------------
(* The classifiers, each applied once to one frame (SpecClassify):          *)
(* detect_cat_presence and identify_cat_color of the poll loop, _detect_cat *)
(* and _cat_color of the trigger-driven watcher.                            *)

DETECT_MIN_AREA == 2000    \* catnap_watch_pir_usb.py:186

\* gray.mean() < t, without the division
MeanBelow(f, t) ==
    SumOver([i \in Blocks |-> f.px[i] * BlockPixels(f, i)], Blocks)
        < t * (f.w * f.h)

\* _detect_cat (176-195): False below the minimum brightness, else whether
\* a contour lies strictly between 2000 and six tenths of the frame; False
\* when anything raises.
detect_cat(frame, err) ==
    IF err THEN FALSE
    ELSE /\ ~MeanBelow(frame, CAT_BRIGHTNESS_THRESHOLD)
         /\ \E area \in frame.contours :
               /\ DETECT_MIN_AREA < area
               /\ area * 10 < frame.w * frame.h * 6

\* The mean brightnesses of the frames classified: around the minimum
\* brightness and around the light/dark cutoff.
Brightness ==
    {CAT_BRIGHTNESS_THRESHOLD - 1, CAT_BRIGHTNESS_THRESHOLD,
     CAT_BRIGHTNESS_THRESHOLD + 1, 80, LIGHT_CAT_THRESHOLD,
     LIGHT_CAT_THRESHOLD + 1}

\* The contour areas a segmentation finds: none, and areas around the
\* bounds of the two bands.
SixTenths(r) == (r.w * r.h * 6) \div 10
AreaChoices(r) ==
    {{}, {CAT_MIN_AREA - 1}, {CAT_MIN_AREA}, {CAT_MIN_AREA + 1},
     {CAT_MAX_AREA - 1}, {CAT_MAX_AREA}, {CAT_MAX_AREA + 1},
     {CAT_MIN_AREA - 1, CAT_MAX_AREA + 1},
     {DETECT_MIN_AREA}, {DETECT_MIN_AREA + 1},
     {SixTenths(r) - 1}, {SixTenths(r)}}

\* Frames of one brightness all over and the frames of the camera's scenes,
\* at the capture resolution of the poll loop and at the frame size of the
\* trigger-driven watcher.
ClassifyFrames ==
    UNION {{[w |-> r.w, h |-> r.h, px |-> p, contours |-> c] :
               p \in {[i \in Blocks |-> v] : v \in Brightness}
                        \cup {ScenePixels(k) : k \in Scenes},
               c \in AreaChoices(r)} :
           r \in {CaptureRes, FrameRes}}

\* One call: the frame, whether something inside the call raises (err),
\* and what came out of it.
\*   raised:  the call raised;  verdict: the boolean it returned;
\*   colour:  the class it returned
Classifications ==
    [pc : {"input"}, fn : {"none"}, frame : ClassifyFrames, err : {FALSE},
     raised : {FALSE}, verdict : {"none"}, colour : {"none"}]

InitClassify ==
    /\ now = Epoch
    /\ photos = AgedDir(0)
    /\ sweep = NoSweep
    /\ Unused
    /\ call \in Classifications

Presence(c, f, err, b) ==
    [c EXCEPT !.pc = "done", !.fn = f, !.err = err,
              !.verdict = IF b THEN "True" ELSE "False"]

Colour(c, f, err, v) ==
    [c EXCEPT !.pc = "done", !.fn = f, !.err = err, !.colour = v]

\* detect_cat_presence (catnap_watch 167-202)
DetectCatPresence ==
    /\ call.pc = "input"
    /\ \E err \in BOOLEAN :
          call' = Presence(call, "detect_cat_presence", err,
                           detect_cat_presence(call.frame, err))
    /\ UNCHANGED <<envVars, pollVars, cap, last_motion_time, baseline_gray,
                   baseline_img, cb, accepted, prev, SAVE_ALL_MOTION_SHOTS,
                   ensured>>

\* identify_cat_color (catnap_watch 204-219)
IdentifyCatColor ==
    /\ call.pc = "input"
    /\ \E err \in BOOLEAN :
          call' = Colour(call, "identify_cat_color", err,
                         identify_cat_color(call.frame, err))
    /\ UNCHANGED <<envVars, pollVars, cap, last_motion_time, baseline_gray,
                   baseline_img, cb, accepted, prev, SAVE_ALL_MOTION_SHOTS,
                   ensured>>

\* _detect_cat (pir_usb 176-195)
DetectCat ==
    /\ call.pc = "input"
    /\ \E err \in BOOLEAN :
          call' = Presence(call, "_detect_cat", err,
                           detect_cat(call.frame, err))
    /\ UNCHANGED <<envVars, pollVars, cap, last_motion_time, baseline_gray,
                   baseline_img, cb, accepted, prev, SAVE_ALL_MOTION_SHOTS,
                   ensured>>

\* _cat_color (pir_usb 197-202)
CatColor ==
    /\ call.pc = "input"
    /\ \E err \in BOOLEAN :
          call' = Colour(call, "_cat_color", err,
                         cat_color(call.frame, err))
    /\ UNCHANGED <<envVars, pollVars, cap, last_motion_time, baseline_gray,
                   baseline_img, cb, accepted, prev, SAVE_ALL_MOTION_SHOTS,
                   ensured>>

NextClassify ==
    \/ DetectCatPresence
    \/ IdentifyCatColor
    \/ DetectCat
    \/ CatColor

SpecClassify == InitClassify /\ [][NextClassify]_vars

----------------------------------------------------------------------------
(* Claims about the poll loops                                             *)

\* C1 (as stated): in the two-stage poll loop the camera is at Detection
\* resolution whenever a cycle begins its detection read and whenever a
\* cycle ends, for every sequence of cycles.
C1_DetectionAtCycleBoundary ==
    (pc = "loop_top" /\ camera = "open") => resolution = DetectionRes

\* C2 (as stated): capture_high_res_photo returns control with the camera
\* back at Detection resolution on every exit path, also when a read or the
\* settle delay raises and when the restoring call itself raises.
C2_RestoredOnReturn ==
    (pc \in {"confirm", "rebaseline"} /\ cyc.switched) =>
        resolution = DetectionRes

\* C10 (as stated): an error inside one cycle of a running capture loop
\* never ends the loop.
C10_ErrorNeverStopsLoop ==
    stopped_by # "error"

\* C11 (SpecPoll): after a failed detection read the loop pauses before it
\* reads the camera again.
C11_PauseAfterFailedRead ==
    (pc = "loop_top" /\ running) => ~cyc.unpaused

\* C12 (SpecPollLive): when the camera has failed for good the loop
\* eventually stops.
C12_DeadCameraStopsLoop ==
    (camera = "dead") ~> (pc = "stopped")

CycleEnds ==
    /\ pc' = "loop_top"
    /\ \/ pc \in {"sleep", "error"}
       \/ pc = "loop_top" /\ camera' = camera

\* C14 (SpecPoll): every cycle makes the retention check before it ends.
C14_CheckedEveryCycle ==
    [][CycleEnds => cyc.checked]_vars

\* C15 (SpecLowmem): a loop that has run for the cleanup interval and has
\* finished a cycle since has had the retention sweep invoked.
C15_SweepWithinInterval ==
    (pc = "sleep" /\ now - Epoch >= CLEANUP_INTERVAL_HOURS * TicksPerHour) =>
        (sweep.called \/ last_cleanup_time > Epoch)

\* The cycle's detection frame changed in at most DIFF_THRESHOLD pixels.
QuietCycle == cyc.changed # -1 /\ cyc.changed <= DIFF_THRESHOLD

\* C16 (SpecPoll): a cycle whose detection frame changed in at most
\* DIFF_THRESHOLD pixels goes straight to housekeeping: no resolution
\* switch, no high-resolution read, no classifier run, no save and no
\* notifier call.
C16_QuietCycleDoesNothing ==
    QuietCycle =>
        /\ pc \in {"housekeeping", "sleep", "stopped"}
        /\ ~cyc.switched
        /\ ~cyc.classified
        /\ ~cyc.recorded
        /\ ~cyc.saved
        /\ cyc.notified = 0

\* A cycle whose frame changed in exactly DIFF_THRESHOLD pixels has reached
\* its closing sleep.
C16_Witness ==
    cyc.changed = DIFF_THRESHOLD /\ pc = "sleep"

C24_StartupFailureStops ==
    stopped_by = "startup" =>
        /\ pc = "stopped"
        /\ ~running
        /\ \A f \in DOMAIN photos : photos[f] < Epoch
        /\ sweep = NoSweep
        /\ cyc \in {<<>>, NewCycle}
        /\ \A t \in DOMAIN cb : cb[t] = Idle

\* The start-up failed after the camera object was made.
C24_Witness ==
    stopped_by = "startup" /\ pc = "stopped" /\ camera = "released"

\* C27 (SpecUltra): a cycle of the ultra-minimal loop whose capture
\* succeeded has called the notifier exactly once, with the path of the
\* photo it took, and without any classifier; a cycle whose capture failed
\* has not called it; either way the loop is still running.
C27_EveryFrameNotified ==
    pc = "sleep" =>
        /\ running
        /\ ~cyc.classified
        /\ IF cyc.saved
           THEN /\ cyc.notified = 1
                /\ cyc.sent[2] = UltraPath(now)
                /\ cyc.sent[2] \in DOMAIN photos
                /\ photos[cyc.sent[2]] = now
           ELSE cyc.notified = 0 /\ cyc.sent = <<>>

\* A cycle has taken its photo and mailed it.
C27_Witness ==
    pc = "sleep" /\ cyc.saved /\ cyc.notified = 1 /\ now > Epoch

\* C36 (SpecPoll): while the loop runs the baseline is never None and is a
\* frame of the Detection resolution, the frame the next read delivers (of
\* the device's resolution) has the baseline's dimensions, and a cycle that
\* finds no interesting change leaves the baseline as it was.
C36_BaselineMatchesDetection ==
    /\ [](InLoop =>
            /\ last_frame_gray # None
            /\ SameSize(last_frame_gray, DetectionRes)
            /\ (pc = "loop_top" /\ camera = "open") =>
                  SameSize(last_frame_gray, resolution))
    /\ [][(pc = "loop_top" /\ pc' = "housekeeping") =>
             last_frame_gray' = last_frame_gray]_vars

\* C37 (SpecPoll): the loop is never blind: whenever it is about to read a
\* detection frame there is a baseline, and every frame the device can
\* deliver whose scene differs from the baseline's in more than
\* DIFF_THRESHOLD pixels is reported as interesting when the comparison
\* itself does not fail.
C37_NeverBlind ==
    (pc = "loop_top" /\ camera = "open" /\ running) =>
        /\ last_frame_gray # None
        /\ \A f \in GrayFrames(resolution) :
              ChangedPixels(last_frame_gray,
                            [f EXCEPT !.w = last_frame_gray.w,
                                      !.h = last_frame_gray.h],
                            MOTION_THRESHOLD) > DIFF_THRESHOLD
                 => is_interesting_frame(f, FALSE)

\* C39 (SpecLowmem): a start-up that fails leaves no device open when run
\* returns: a camera that was opened has been released.
C39_ReleasedAfterFailedStartup ==
    (stopped_by = "startup" /\ pc = "stopped") => camera # "open"

----------------------------------------------------------------------------
(* Claims about the trigger-driven watcher                                 *)

\* The invocations that got past the debounce check and are still running
\* the event pipeline (lines 226-242).
InPipeline == {t \in DOMAIN cb : cb[t].pc \in {"accept", "capture", "housekeeping"}}

\* Invocation t was delivered less than the cooldown after the accepted
\* trigger before it.
WithinCooldown(t) ==
    cb[t].last # 0 /\ cb[t].now - cb[t].last < MOTION_COOLDOWN_SECONDS

\* C3 (SpecTrigger): a trigger delivered to _on_motion less than
\* MOTION_COOLDOWN_SECONDS after the previous accepted trigger does not get
\* past the debounce check: it captures nothing, saves nothing and does not
\* call the notifier.
C3_CooldownTriggerIgnored ==
    \A t \in DOMAIN cb :
       WithinCooldown(t) =>
          /\ cb[t].pc \in {"check", "returned"}
          /\ ~cb[t].passed
          /\ ~cb[t].captured
          /\ ~cb[t].saved
          /\ cb[t].notified = 0

\* A trigger inside the cooldown of an accepted one has been checked and
\* has returned.
C3_Witness ==
    \E t \in DOMAIN cb : WithinCooldown(t) /\ cb[t].pc = "returned"

\* C4 (SpecTriggerConc): two triggers delivered less than the cooldown apart
\* never both pass the debounce check, also when one invocation of the
\* callback starts while another is in progress.
C4_DebounceAtomic ==
    \A s, t \in DOMAIN cb :
       (s # t /\ cb[s].passed /\ cb[t].passed) =>
          Abs(cb[s].now - cb[t].now) >= MOTION_COOLDOWN_SECONDS

\* C5 (SpecTriggerConc): at most one event pipeline run is in progress at
\* any time.
C5_OnePipelineAtATime ==
    Cardinality(InPipeline) <= 1

\* Invocation t of the callback has ended.
Ended(t) == cb[t].pc \in {"returned", "raised"}

\* C17 (SpecTrigger): with SAVE_ALL_MOTION_SHOTS set, every accepted trigger
\* whose capture succeeds enters Recording, whatever the comparison with the
\* reference image gives.
C17_OverrideRecordsEveryCapture ==
    \A t \in DOMAIN cb :
       (SAVE_ALL_MOTION_SHOTS /\ cb[t].got /\ Ended(t)) => cb[t].recording

\* C18 (SpecTrigger): an invocation that entered Recording has called the
\* notifier exactly once, with the path its save returned; one that did not
\* has not called it.
C18_OneNotificationPerEvent ==
    \A t \in DOMAIN cb :
       Ended(t) =>
          IF cb[t].recording
          THEN /\ cb[t].notified = 1
               /\ cb[t].saved <=> cb[t].sent[2] # NoPath
          ELSE cb[t].notified = 0

\* C19 (SpecTrigger): a Recording invocation whose save failed has still
\* called the notifier, with no path, and has returned normally.
C19_SaveFailureContained ==
    \A t \in DOMAIN cb :
       (cb[t].recording /\ ~cb[t].saved /\ Ended(t)) =>
          /\ cb[t].pc = "returned"
          /\ cb[t].notified = 1
          /\ cb[t].sent[2] = NoPath

\* C20 (SpecTrigger): every successful save adds one new file to the
\* directory.
C20_SaveAddsFile ==
    [][\A t \in DOMAIN cb :
          (t \in DOMAIN cb' /\ ~cb[t].saved /\ cb'[t].saved) =>
             Cardinality(DOMAIN photos') = Cardinality(DOMAIN photos) + 1]_vars

\* C25 (SpecTrigger): a trigger is rejected exactly when it is delivered
\* less than the cooldown after the latest accepted one, and its rejection
\* changes nothing: last_motion_time stays the time of that accepted trigger,
\* and no file, sweep, camera or reference image is touched.
C25_RejectedChangesNothing ==
    [][\A t \in DOMAIN cb :
          (t \in DOMAIN cb' /\ cb[t].pc = "check"
             /\ cb'[t].pc \in {"returned", "accept"}) =>
             /\ (cb'[t].pc = "returned")
                   <=> (cb[t].now - accepted < MOTION_COOLDOWN_SECONDS)
             /\ cb'[t].pc = "returned" =>
                   /\ last_motion_time' = last_motion_time
                   /\ last_motion_time' = accepted
                   /\ UNCHANGED <<photos, sweep, cap, baseline_gray,
                                  baseline_img, last_cleanup_time>>]_vars

\* A trigger has been rejected and last_motion_time still holds the earlier
\* time of the accepted one.
C25_Witness ==
    \E t \in DOMAIN cb :
       /\ cb[t].pc = "returned" /\ ~cb[t].passed
       /\ last_motion_time > 0
       /\ cb[t].now > last_motion_time

\* C26 (SpecTrigger): the polling fallback calls _on_motion only for a
\* sample of 1 that follows a sample of 0; a sample that does not call it
\* is not a rising edge and starts nothing; after the call the level is
\* remembered as high, so a level that stays high does not call it again.
C26_OnlyRisingEdge ==
    [][/\ (pc = "poll_loop" /\ pc' = "poll_call") => prev = 0
       /\ (pc = "poll_loop" /\ pc' = "poll_loop") =>
             (cb' = cb /\ ~(prev = 0 /\ prev' = 1))
       /\ (pc = "poll_call" /\ pc' = "poll_loop") => prev' = 1]_vars

\* The fallback loop is sampling again after a call, with the level
\* remembered as high.
C26_Witness ==
    pc = "poll_loop" /\ prev = 1 /\ cb[1].pc = "returned"

\* C22 (SpecTrigger): _ensure_baseline, when the reference file is there and
\* readable, loads it without reading the camera or writing the file;
\* otherwise it reads the camera and, when it succeeds, has written the frame
\* to the reference path and keeps it; it returns True only with a baseline
\* in memory, and a failed call leaves the file as it was.
C22_EnsureBaseline ==
    [][(~ensured.called /\ ensured'.called) =>
          /\ IF BaselineOnDisk
             THEN /\ ensured'.ret /\ ~ensured'.read /\ ~ensured'.wrote
                  /\ now' = now
                  /\ photos' = photos
                  /\ baseline_img' = baseline_img
                  /\ baseline_gray' = Gray(baseline_img)
             ELSE /\ ensured'.read
                  /\ ensured'.ret =>
                        /\ ensured'.wrote
                        /\ BASELINE_IMAGE_PATH \in DOMAIN photos'
                        /\ photos'[BASELINE_IMAGE_PATH] = now'
                        /\ baseline_img' # None
                        /\ baseline_gray' = Gray(baseline_img')
          /\ ensured'.ret => baseline_gray' # None
          /\ ~ensured'.ret =>
                photos' = photos /\ baseline_img' = baseline_img]_vars

\* _ensure_baseline found no readable reference file, captured a frame and
\* wrote it.
C22_Witness ==
    /\ ensured.called /\ ensured.ret /\ ensured.read /\ ensured.wrote
    /\ baseline_gray # None

C38_NoCaptureAfterShutdown ==
    /\ [](pc \in {"closing", "stopped"} => cap = "none")
    /\ [][pc = "closing" =>
             \A t \in Threads : cb'[t].captured = cb[t].captured]_vars

\* C40 (SpecTrigger): an accepted trigger starts the cooldown even when its
\* pipeline fails: a callback that has called _capture_frame, whatever came
\* of it, has its trigger's time in last_motion_time, and a trigger checked
\* less than MOTION_COOLDOWN_SECONDS after that time is rejected and leaves
\* the time as it is, so that no capture is tried again inside the window.
C40_FailedCaptureKeepsCooldown ==
    /\ [](\A t \in DOMAIN cb :
             cb[t].captured => last_motion_time = cb[t].now)
    /\ [][\A t \in DOMAIN cb :
             (/\ cb[t].pc = "check"
              /\ cb'[t].pc \in {"returned", "accept"}
              /\ cb[t].now - last_motion_time < MOTION_COOLDOWN_SECONDS) =>
                 /\ cb'[t].pc = "returned"
                 /\ ~cb'[t].captured
                 /\ last_motion_time' = last_motion_time]_vars

\* A trigger has been rejected inside the cooldown of an accepted trigger
\* whose capture failed (the camera could not be read nor reopened).
C40_Witness ==
    /\ pc = "event_wait" /\ cap = "none"
    /\ \E t \in DOMAIN cb :
          /\ WithinCooldown(t)
          /\ cb[t].pc = "returned" /\ ~cb[t].passed
          /\ last_motion_time = cb[t].last

----------------------------------------------------------------------------
(* Claims about the frame comparisons                                      *)

\* C28 (SpecCompare): a comparison of two images of different sizes raises:
\* it never returns a count or a verdict.
C28_MismatchRaises ==
    (call.pc = "done" /\ call.base # None
       /\ ~SameSize(call.base, call.frame)) => call.raised

\* C29 (SpecCompare): an image compared with itself has no changed pixel,
\* with every blur kernel and every binary threshold, and is not reported
\* as interesting.
C29_SelfScoreZero ==
    (call.pc = "done" /\ call.base = call.frame) =>
        /\ ~call.raised
        /\ call.changed = 0
        /\ IF call.fn = "_compare_to_baseline" THEN call.ret = 0
           ELSE call.verdict = "False"

\* An image has been compared with itself by _compare_to_baseline, blurred
\* with a kernel of 5 and binarised at 0.
C29_Witness ==
    /\ call.pc = "done" /\ call.fn = "_compare_to_baseline"
    /\ call.base = call.frame
    /\ call.kernel = 5 /\ call.thresh = 0

\* The images differ in exactly one pixel, by more than t.
OnePixelApart(a, b, t) ==
    /\ SameSize(a, b)
    /\ Cardinality({p \in DOMAIN a.px : a.px[p] # b.px[p]}) = 1
    /\ \E p \in DOMAIN a.px : Abs(a.px[p] - b.px[p]) > t

\* C30 (SpecCompare): two images of one size that differ in exactly one
\* pixel, by more than the binary threshold, have a changed-pixel count of
\* at least 1 under every blur setting.
C30_OnePixelCounts ==
    (call.pc = "done" /\ call.fn = "_compare_to_baseline"
       /\ call.base # None
       /\ OnePixelApart(call.base, call.frame, call.thresh)) =>
        call.changed >= 1

\* C9 (SpecTrigger): once the watcher has its reference image, no trigger,
\* comparison or retention sweep removes the reference image file.
C9_ReferenceImageKept ==
    baseline_gray # None => BASELINE_IMAGE_PATH \in DOMAIN photos

----------------------------------------------------------------------------
(* Claims about the classifiers (SpecClassify)                             *)

\* C31 (SpecClassify): the presence classifier answers false whenever the
\* mean brightness does not exceed the minimum (also when equal to it), and
\* otherwise true exactly when some contour has an area inside the band,
\* both bounds of the band included.
C31_PresenceBand ==
    (call.pc = "done" /\ ~call.err
       /\ call.fn \in {"detect_cat_presence", "_detect_cat"}) =>
        LET lo == IF call.fn = "detect_cat_presence" THEN CAT_MIN_AREA
                  ELSE DETECT_MIN_AREA
            hi == IF call.fn = "detect_cat_presence" THEN CAT_MAX_AREA
                  ELSE SixTenths(call.frame)
        IN  (call.verdict = "True") <=>
               /\ MeanAbove(call.frame, CAT_BRIGHTNESS_THRESHOLD)
               /\ \E area \in call.frame.contours :
                     lo <= area /\ area <= hi

\* C32 (SpecClassify): the colour class is light exactly when the mean
\* brightness is strictly above LIGHT_CAT_THRESHOLD, and dark otherwise,
\* also when the mean equals the cutoff.
C32_LightAboveCutoff ==
    (call.pc = "done" /\ ~call.err
       /\ call.fn \in {"identify_cat_color", "_cat_color"}) =>
        /\ call.colour \in {"light", "dark"}
        /\ (call.colour = "light") <=>
              SumOver([i \in Blocks |->
                          call.frame.px[i] * BlockPixels(call.frame, i)],
                      Blocks)
                 > LIGHT_CAT_THRESHOLD * call.frame.w * call.frame.h

\* A frame whose mean brightness equals the cutoff has been classified as
\* dark by identify_cat_color.
C32_Witness ==
    /\ call.pc = "done" /\ call.fn = "identify_cat_color" /\ ~call.err
    /\ \A i \in Blocks : call.frame.px[i] = LIGHT_CAT_THRESHOLD
    /\ call.colour = "dark"

\* C33 (SpecClassify): no classifier raises: when something fails inside,
\* the presence classifier answers false and the colour classifier answers
\* the sentinel ("mysterious"), neither light nor dark.
C33_ClassifierNeverRaises ==
    call.pc = "done" =>
        /\ ~call.raised
        /\ call.err =>
              IF call.fn \in {"detect_cat_presence", "_detect_cat"}
              THEN call.verdict = "False"
              ELSE call.colour = "mysterious"

\* Both kinds of classifier have failed inside: this one is the colour
\* classifier of the trigger-driven watcher, answering the sentinel.
C33_Witness ==
    /\ call.pc = "done" /\ call.err /\ call.fn = "_cat_color"
    /\ call.colour = "mysterious"

----------------------------------------------------------------------------
(* Claims about the retention sweep (SpecSweep)                            *)

Count(dir) == Cardinality(DOMAIN dir)
RealSweep == sweep.called /\ ~sweep.dry_run
FailedDeletions == sweep.attempted \ sweep.removed
DistinctMtimes(dir) ==
    \A f, g \in DOMAIN dir : f # g => dir[f] # dir[g]

\* C6 (as stated): after every sweep that is not a dry run, the number of
\* stored files is at most maxCount, whatever happens to individual deletions.
C6_CountAtMostMax ==
    RealSweep => Count(photos) <= sweep.max_photos

\* C6 (amended): after a sweep that is not a dry run and whose listing
\* succeeded, the number of stored files is at most maxCount plus the number
\* of deletions that failed; a sweep whose listing failed deletes nothing.
C6_CountAtMostMaxPlusFailed ==
    RealSweep =>
        /\ sweep.listed =>
               Count(photos) <= sweep.max_photos + Cardinality(FailedDeletions)
        /\ ~sweep.listed => photos = sweep.before

C6_Witness ==
    /\ RealSweep /\ sweep.listed
    /\ Count(sweep.before) > sweep.max_photos
    /\ FailedDeletions # {}
    /\ sweep.removed # {}

C8_FailureSkipped ==
    (RealSweep /\ sweep.listed) =>
        /\ sweep.attempted = Range(sweep.selected)
        /\ (DOMAIN sweep.before) \ (DOMAIN photos) = sweep.removed
        /\ sweep.ret = Count(sweep.before) - Count(photos)

\* a deletion failed and a file later in the loop was still removed
C8_Witness ==
    /\ RealSweep /\ sweep.listed
    /\ \E i, j \in 1..Len(sweep.selected) :
          /\ i < j
          /\ sweep.selected[i] \in DOMAIN photos
          /\ sweep.selected[j] \notin DOMAIN photos
    /\ sweep.ret = Cardinality(sweep.removed)

\* C34: a dry run deletes no file and returns the number of files a sweep
\* that is not a dry run would select with the same maxCount: the files
\* beyond maxCount when the listing succeeds, none when it fails.
C34_DryRunCountsSelection ==
    (sweep.called /\ sweep.dry_run) =>
        /\ photos = sweep.before
        /\ sweep.removed = {}
        /\ sweep.ret = IF sweep.listed
                          /\ Count(sweep.before) > sweep.max_photos
                       THEN Count(sweep.before) - sweep.max_photos
                       ELSE 0

\* C35: whatever fails, the files a sweep removes are among those ranked
\* beyond maxCount by modification time: at least maxCount of the files
\* that stay (all of them where there were fewer) are at least as new as
\* every file removed, and no file that stays is touched.
C35_NewestNeverRemoved ==
    sweep.called =>
        LET gone == (DOMAIN sweep.before) \ (DOMAIN photos)
            k == IF Count(sweep.before) < sweep.max_photos
                 THEN Count(sweep.before) ELSE sweep.max_photos
        IN  /\ gone = sweep.removed
            /\ \A f \in DOMAIN photos : photos[f] = sweep.before[f]
            /\ gone # {} =>
                  Cardinality({f \in DOMAIN photos :
                                  \A g \in gone :
                                     sweep.before[f] >= sweep.before[g]})
                     >= k

\* A sweep in which a deletion failed has removed files, with files of
\* equal modification time on both sides of the cut.
C35_Witness ==
    /\ RealSweep /\ sweep.listed
    /\ FailedDeletions # {}
    /\ sweep.removed # {}
    /\ sweep.max_photos > 0
    /\ \E f \in DOMAIN photos : \E g \in sweep.removed :
          sweep.before[f] = sweep.before[g]

====
